---------------------------- MODULE Spec2Model ----------------------------
(***************************************************************************)
(* Model of dict_of_dicts_init.py: an A/B timing harness that runs six     *)
(* idioms for initialising d[k1][k2] = v under two conditions (k1 absent / *)
(* k1 present before each measured fragment) and prints a ranked table per *)
(* condition.                                                              *)
(*                                                                         *)
(* Python values are modelled as follows.                                  *)
(*  - An outer dict (d1, d) is a function from key strings to object ids.  *)
(*  - The nested dicts are objects with identity: heap maps the id of      *)
(*    every live object to its contents (a function from inner keys to     *)
(*    values).  d1.copy() and defaultdict(dict, d1) are shallow: the new   *)
(*    outer dict refers to the same objects as d1.                         *)
(*  - An object to which no outer dict refers is deallocated (CPython      *)
(*    reference counting; gc.disable() only stops the cycle collector).    *)
(*  - None is the empty tuple and a float x is the tuple <<x>> where a     *)
(*    variable may hold either (base_seconds).                             *)
(*  - Time is counted in integer ticks.  time.time() is assumed not to go  *)
(*    backwards.                                                           *)
(***************************************************************************)
EXTENDS Integers, Sequences, FiniteSets, TLC

(***************************************************************************)
(* Bounds of the model.                                                    *)
(***************************************************************************)
\* number of fixture keys k0 .. k(NKeys-1); 10**6 in the source
NKeys == 3
\* defaults['repeat']; 10**6 in the source
Repeat == 2
\* largest duration, in ticks, of one exec(init_each)
MaxInitEachTicks == 1
\* largest duration, in ticks, of one exec(measure)
MaxMeasureTicks == 1
\* formatting specification: largest baseline total and largest row total
MaxBase == 8
MaxSeconds == 1010

(***************************************************************************)
(* Configuration (section "config" of the source).                         *)
(***************************************************************************)
envs == << "exists = False", "exists = True" >>

k1 == "k1"
k2 == "k2"
v == "v"

\* faulty variant: the keys are built with another prefix
KeyUpper(i) == "K" \o ToString(i)

\* 'k' + str(i)
Key(i) == "k" \o ToString(i)

\* the nested dicts of the fixture are the objects 1 .. NKeys
FixtureObj(i) == i + 1

\* {'k' + str(i): {} for i in xrange(NKeys)}: the outer dict
FixtureDict == [ k \in { Key(i) : i \in 0 .. NKeys - 1 } |->
                   FixtureObj(CHOOSE i \in 0 .. NKeys - 1 : Key(i) = k) ]

\* ... and the heap it allocates: one empty dict per key
FixtureHeap == [ o \in { FixtureObj(i) : i \in 0 .. NKeys - 1 } |-> << >> ]

defaults == [ init_once |-> "pass", init_each |-> "pass", repeat |-> Repeat ]

\* The fragments are source text handed to compile(); the model names each
\* distinct text and interprets it in ExecInitOnce, ExecInitEach, ExecMeasure.
tests == <<
  [ name |-> "setdefault",  init_once |-> "d = d1.copy()",
    init_each |-> "if not exists: del d[k1]", measure |-> "setdefault" ],
  [ name |-> "defaultdict", init_once |-> "d = defaultdict(dict, d1)",
    init_each |-> "if not exists: del d[k1]", measure |-> "defaultdict" ],
  [ name |-> "not in",      init_once |-> "d = d1.copy()",
    init_each |-> "if not exists: del d[k1]", measure |-> "not in" ],
  [ name |-> "in else",     init_once |-> "d = d1.copy()",
    init_each |-> "if not exists: del d[k1]", measure |-> "in else" ],
  [ name |-> "get",         init_once |-> "d = d1.copy()",
    init_each |-> "if not exists: del d[k1]", measure |-> "get" ],
  [ name |-> "try",         init_once |-> "d = d1.copy()",
    init_each |-> "if not exists: del d[k1]", measure |-> "try" ] >>

None == << >>

\* test.get('init_once') or defaults['init_once'], and the same for init_each
GetCode(test, field) ==
  IF field \in DOMAIN test /\ test[field] # ""
    THEN test[field] ELSE defaults[field]

\* test.get('repeat') or defaults['repeat']
GetRepeat(test) ==
  IF "repeat" \in DOMAIN test /\ test.repeat # 0
    THEN test.repeat ELSE defaults.repeat

(***************************************************************************)
(* Objects.                                                                *)
(***************************************************************************)
\* ids available to the allocator: the fixture's objects and one more, which
\* is all that is ever live at once
Objs == 1 .. NKeys + 1

Range(f) == { f[x] : x \in DOMAIN f }

Min(S) == CHOOSE x \in S : \A y \in S : x <= y

\* the id the allocator hands out for a new dict
NewObj(heap) == Min(Objs \ DOMAIN heap)

\* reference counting: an object referred to by neither outer dict nor the
\* local vs is freed
Release(heap, d, fixture, vs) ==
  [ o \in (DOMAIN heap) \cap (Range(d) \cup Range(fixture) \cup Range(vs)) |->
      heap[o] ]

\* inner[k] = val
SetItem(inner, k, val) ==
  [ x \in DOMAIN inner \cup {k} |-> IF x = k THEN val ELSE inner[x] ]

\* d[k] = o
Bind(d, k, o) == [ x \in DOMAIN d \cup {k} |-> IF x = k THEN o ELSE d[x] ]

\* del d[k], for k in d
Unbind(d, k) == [ x \in DOMAIN d \ {k} |-> d[x] ]

\* heap after obj[k] = val
Store(heap, obj, k, val) == [ heap EXCEPT ![obj] = SetItem(heap[obj], k, val) ]

\* heap after obj = {}, and after obj = {k: val}
AllocEmpty(heap) ==
  [ o \in DOMAIN heap \cup {NewObj(heap)} |->
      IF o = NewObj(heap) THEN << >> ELSE heap[o] ]

AllocWith(heap, k, val) ==
  [ o \in DOMAIN heap \cup {NewObj(heap)} |->
      IF o = NewObj(heap) THEN SetItem(<< >>, k, val) ELSE heap[o] ]

(***************************************************************************)
(* Execution of the fragments.  A store is the part of the interpreter     *)
(* state a fragment reads and writes: d (the working copy), factory (TRUE  *)
(* when d is a defaultdict(dict)), vs (the local the "get" fragment binds: *)
(* None or <<object id>>), heap, and err (TRUE when the fragment ended     *)
(* with an uncaught KeyError).                                             *)
(***************************************************************************)
Raise(s) == [ s EXCEPT !.err = TRUE ]

\* exec(env): binds the local exists
ExecEnv(env) ==
  CASE env = "exists = False" -> FALSE
    [] env = "exists = True"  -> TRUE

\* exec(init_once)
ExecInitOnce(code, s, fixture) ==
  CASE code = "d = d1.copy()" ->
         [ s EXCEPT !.d = fixture, !.factory = FALSE ]
    [] code = "d = defaultdict(dict, d1)" ->
         [ s EXCEPT !.d = fixture, !.factory = TRUE ]
    [] code = "pass" -> s

\* faulty variant: init_each does nothing
ExecInitEachPass(code, s, exists) == s

\* exec(init_each)
ExecInitEach(code, s, exists) ==
  CASE code = "if not exists: del d[k1]" ->
         IF exists THEN s
         ELSE IF k1 \in DOMAIN s.d
           THEN [ s EXCEPT !.d = Unbind(s.d, k1) ]
           ELSE Raise(s)
    [] code = "pass" -> s

\* the evaluation of d[k]: the store afterwards (a defaultdict(dict) binds a
\* new empty dict to a missing key, a dict raises KeyError); the value is
\* then s.d[k]
Subscript(s, k) ==
  IF k \in DOMAIN s.d THEN s
  ELSE IF s.factory
    THEN [ s EXCEPT !.d = Bind(s.d, k, NewObj(s.heap)),
                    !.heap = AllocEmpty(s.heap) ]
    ELSE Raise(s)

\* d[k][kk] = val
SubscriptStore(s, k, kk, val) ==
  LET t == Subscript(s, k)
  IN  IF t.err THEN t
      ELSE [ t EXCEPT !.heap = Store(t.heap, t.d[k], kk, val) ]

\* d[k] = {kk: val}
BindNew(s, k, kk, val) ==
  [ s EXCEPT !.d = Bind(s.d, k, NewObj(s.heap)),
             !.heap = AllocWith(s.heap, kk, val) ]

\* d.setdefault(k1, {})[k2] = v
\* The argument {} is built before the call, whether or not k1 is in d.
MeasureSetdefault(s) ==
  LET arg   == NewObj(s.heap)
      heap1 == AllocEmpty(s.heap)
      d2    == IF k1 \in DOMAIN s.d THEN s.d ELSE Bind(s.d, k1, arg)
  IN  [ s EXCEPT !.d = d2, !.heap = Store(heap1, d2[k1], k2, v) ]

\* d[k1][k2] = v
MeasureDefaultdict(s) == SubscriptStore(s, k1, k2, v)

\* if k1 not in d: d[k1] = {}
\* d[k1][k2] = v
MeasureNotIn(s) ==
  LET t == IF k1 \notin DOMAIN s.d
             THEN [ s EXCEPT !.d = Bind(s.d, k1, NewObj(s.heap)),
                             !.heap = AllocEmpty(s.heap) ]
             ELSE s
  IN  SubscriptStore(t, k1, k2, v)

\* faulty variant: the else branch binds {} instead of {k2: v}
MeasureInElseEmpty(s) ==
  IF k1 \in DOMAIN s.d
    THEN SubscriptStore(s, k1, k2, v)
    ELSE [ s EXCEPT !.d = Bind(s.d, k1, NewObj(s.heap)),
                    !.heap = AllocEmpty(s.heap) ]

\* if k1 in d: d[k1][k2] = v
\* else: d[k1] = {k2: v}
MeasureInElse(s) ==
  IF k1 \in DOMAIN s.d
    THEN SubscriptStore(s, k1, k2, v)
    ELSE BindNew(s, k1, k2, v)

\* vs = d.get(k1)
\* if vs is None: d[k1] = {k2: v}
\* else: vs[k2] = v
MeasureGet(s) ==
  LET got == IF k1 \in DOMAIN s.d THEN << s.d[k1] >> ELSE None
      t   == [ s EXCEPT !.vs = got ]
  IN  IF got = None
        THEN BindNew(t, k1, k2, v)
        ELSE [ t EXCEPT !.heap = Store(t.heap, got[1], k2, v) ]

\* try: d[k1][k2] = v
\* except KeyError: d[k1] = {k2: v}
MeasureTry(s) ==
  LET t == SubscriptStore(s, k1, k2, v)
  IN  IF t.err THEN BindNew(s, k1, k2, v) ELSE t

\* exec(measure)
ExecMeasure(code, s) ==
  CASE code = "setdefault"  -> MeasureSetdefault(s)
    [] code = "defaultdict" -> MeasureDefaultdict(s)
    [] code = "not in"      -> MeasureNotIn(s)
    [] code = "in else"     -> MeasureInElse(s)
    [] code = "get"         -> MeasureGet(s)
    [] code = "try"         -> MeasureTry(s)

(***************************************************************************)
(* The table.                                                              *)
(***************************************************************************)
\* the field width of '{:6d}'
FieldWidth == 6

\* round(n / den) for den > 0: Python 2 rounds halves away from zero
Round(n, den) ==
  IF n >= 0 THEN (2 * n + den) \div (2 * den)
            ELSE - ((2 * (- n) + den) \div (2 * den))

\* faulty variant: the ratio of the totals instead of the gain
SpeedupRatio(base, secs) == Round(100 * secs, base)

\* int(round(100 * (base_seconds - seconds) / base_seconds)), base_seconds > 0
Speedup(base, secs) == Round(100 * (base - secs), base)

DigitChar(n) == << "0", "1", "2", "3", "4", "5", "6", "7", "8", "9" >>[n + 1]

RECURSIVE Digits(_)
\* the decimal digits of n >= 0, as a sequence of characters
Digits(n) ==
  IF n < 10 THEN << DigitChar(n) >>
            ELSE Digits(n \div 10) \o << DigitChar(n % 10) >>

Spaces(n) == [ j \in 1 .. n |-> " " ]

\* faulty variant: '{:d}', no field width
FormatBare(n) == IF n < 0 THEN << "-" >> \o Digits(- n) ELSE Digits(n)

\* '{:6d}'.format(n): sign and digits, right-aligned in a field of at least
\* FieldWidth characters
Format6d(n) ==
  LET body == IF n < 0 THEN << "-" >> \o Digits(- n) ELSE Digits(n)
  IN  IF Len(body) < FieldWidth
        THEN Spaces(FieldWidth - Len(body)) \o body
        ELSE body

\* one printed row: the speedup field as printed (the '%' follows it), the
\* seconds (in ticks; the rendering '{:.6f}' is not modelled) and the name
Row(base, secs, name) ==
  [ speedup |-> Format6d(Speedup(base, secs)), seconds |-> secs, name |-> name ]

\* str < str for the names of the tests, as Python compares them
NameLess(a, b) ==
  LET order == << "defaultdict", "get", "in else", "not in", "setdefault", "try" >>
      pos(n) == CHOOSE j \in 1 .. Len(order) : order[j] = n
  IN  pos(a) < pos(b)

\* (seconds, name) < (seconds, name): tuples compare item by item
EntryLess(a, b) == a[1] < b[1] \/ (a[1] = b[1] /\ NameLess(a[2], b[2]))

RECURSIVE Insert(_, _)
Insert(e, sorted) ==
  IF sorted = << >> THEN << e >>
  ELSE IF EntryLess(e, Head(sorted)) THEN << e >> \o sorted
  ELSE << Head(sorted) >> \o Insert(e, Tail(sorted))

RECURSIVE SortedFrom(_, _)
SortedFrom(list, acc) ==
  IF list = << >> THEN acc ELSE SortedFrom(Tail(list), Insert(Head(list), acc))

\* faulty variant: the entries are printed in the order of results
Unsorted(list) == list

\* sorted(results)
Sorted(list) == SortedFrom(list, << >>)

\* faulty variant: "if not base_seconds" instead of "is None"
UpdateBaseFalsy(base, secs) == IF base = None \/ base = << 0 >> THEN << secs >> ELSE base

\* if base_seconds is None: base_seconds = seconds
UpdateBase(base, secs) == IF base = None THEN << secs >> ELSE base

(***************************************************************************)
(* The state of main().                                                    *)
(***************************************************************************)
VARIABLES
  pc,            \* the position in main()
  envIdx,        \* for env in envs: index of env
  exists,        \* the local bound by exec(env)
  testIdx,       \* for test in tests: index of test
  d1,            \* the fixture's outer dict
  d,             \* the working copy
  factory,       \* TRUE when d is a defaultdict(dict)
  vs,            \* the local bound by the "get" fragment
  heap,          \* the contents of the live nested dicts
  i,             \* iterations of "for _ in xrange(repeat)" completed
  clock,         \* what time.time() returns
  start,
  seconds,
  results,
  base_seconds,
  out_header,    \* stdout under the last condition heading: header printed
  out_rows,      \* ... and the rows printed
  tables,        \* tables printed in full
  calls,         \* history: executions of each step for the current test
  measured       \* history: ticks spent inside exec(measure), current test

vars == << pc, envIdx, exists, testIdx, d1, d, factory, vs, heap, i, clock,
           start, seconds, results, base_seconds, out_header, out_rows,
           tables, calls, measured >>

NoCalls == [ once |-> 0, each |-> 0, start |-> 0, measure |-> 0, accum |-> 0 ]

test == tests[testIdx]

store == [ d |-> d, factory |-> factory, vs |-> vs, heap |-> heap, err |-> FALSE ]

\* the store s becomes the state; objects no longer referred to are freed
Commit(s) ==
  /\ d' = s.d
  /\ factory' = s.factory
  /\ vs' = s.vs
  /\ heap' = Release(s.heap, s.d, d1, s.vs)

\* Module level and the entry of main(): d1 is built; the locals exists, d,
\* vs, start, seconds are unbound until their first assignment, which comes
\* before their first use (they are given arbitrary fixed values here).
Init ==
  /\ pc = "env"
  /\ envIdx = 1
  /\ exists = FALSE
  /\ testIdx = 1
  /\ d1 = FixtureDict
  /\ d = << >>
  /\ factory = FALSE
  /\ vs = None
  /\ heap = FixtureHeap
  /\ i = 0
  /\ clock = 0
  /\ start = 0
  /\ seconds = 0
  /\ results = << >>
  /\ base_seconds = None
  /\ out_header = FALSE
  /\ out_rows = << >>
  /\ tables = 0
  /\ calls = NoCalls
  /\ measured = 0

\* faulty variant: results is not reset for the new condition
BeginEnvKeepResults ==
  /\ pc = "env"
  /\ envIdx <= Len(envs)
  /\ out_header' = FALSE
  /\ out_rows' = << >>
  /\ exists' = ExecEnv(envs[envIdx])
  /\ base_seconds' = None
  /\ testIdx' = 1
  /\ pc' = "test"
  /\ UNCHANGED << envIdx, d1, d, factory, vs, heap, i, clock, start, seconds,
                  results, tables, calls, measured >>

\* for env in envs: print the heading, exec(env), results = [],
\* base_seconds = None
BeginEnv ==
  /\ pc = "env"
  /\ envIdx <= Len(envs)
  /\ out_header' = FALSE
  /\ out_rows' = << >>
  /\ exists' = ExecEnv(envs[envIdx])
  /\ results' = << >>
  /\ base_seconds' = None
  /\ testIdx' = 1
  /\ pc' = "test"
  /\ UNCHANGED << envIdx, d1, d, factory, vs, heap, i, clock, start, seconds,
                  tables, calls, measured >>

\* for test in tests: compile the fragments, read repeat
BeginTest ==
  /\ pc = "test"
  /\ testIdx <= Len(tests)
  /\ calls' = NoCalls
  /\ measured' = 0
  /\ pc' = "init_once"
  /\ UNCHANGED << envIdx, exists, testIdx, d1, d, factory, vs, heap, i, clock,
                  start, seconds, results, base_seconds, out_header, out_rows,
                  tables >>

\* exec(init_once); seconds = 0; enter "for _ in xrange(repeat)"
InitOnce ==
  /\ pc = "init_once"
  /\ Commit(ExecInitOnce(GetCode(test, "init_once"), store, d1))
  /\ seconds' = 0
  /\ i' = 0
  /\ calls' = [ calls EXCEPT !.once = @ + 1 ]
  /\ pc' = IF GetRepeat(test) > 0 THEN "init_each" ELSE "append"
  /\ UNCHANGED << envIdx, exists, testIdx, d1, clock, start, results,
                  base_seconds, out_header, out_rows, tables, measured >>

\* exec(init_each), which takes some time; an uncaught KeyError ends the run
InitEach ==
  /\ pc = "init_each"
  /\ LET s == ExecInitEach(GetCode(test, "init_each"), store, exists)
     IN  /\ Commit(s)
         /\ pc' = IF s.err THEN "KeyError" ELSE "start"
  /\ \E ticks \in 0 .. MaxInitEachTicks : clock' = clock + ticks
  /\ calls' = [ calls EXCEPT !.each = @ + 1 ]
  /\ UNCHANGED << envIdx, exists, testIdx, d1, i, start, seconds, results,
                  base_seconds, out_header, out_rows, tables, measured >>

\* faulty variant: the timestamp is taken in the first iteration only
TakeStartOnce ==
  /\ pc = "start"
  /\ start' = IF i = 0 THEN clock ELSE start
  /\ calls' = [ calls EXCEPT !.start = @ + 1 ]
  /\ pc' = "measure"
  /\ UNCHANGED << envIdx, exists, testIdx, d1, d, factory, vs, heap, i, clock,
                  seconds, results, base_seconds, out_header, out_rows, tables,
                  measured >>

\* start = time.time()
TakeStart ==
  /\ pc = "start"
  /\ start' = clock
  /\ calls' = [ calls EXCEPT !.start = @ + 1 ]
  /\ pc' = "measure"
  /\ UNCHANGED << envIdx, exists, testIdx, d1, d, factory, vs, heap, i, clock,
                  seconds, results, base_seconds, out_header, out_rows, tables,
                  measured >>

\* exec(measure), which takes some time; an uncaught KeyError ends the run
Measure ==
  /\ pc = "measure"
  /\ LET s == ExecMeasure(test.measure, store)
     IN  /\ Commit(s)
         /\ pc' = IF s.err THEN "KeyError" ELSE "accum"
  /\ \E ticks \in 0 .. MaxMeasureTicks :
       /\ clock' = clock + ticks
       /\ measured' = measured + ticks
  /\ calls' = [ calls EXCEPT !.measure = @ + 1 ]
  /\ UNCHANGED << envIdx, exists, testIdx, d1, i, start, seconds, results,
                  base_seconds, out_header, out_rows, tables >>

\* seconds += time.time() - start; next iteration or leave the loop.
\* Only differences of clock readings are ever used, so the epoch of the clock
\* is moved to the present: clock and start are both shifted by - clock.
Accumulate ==
  /\ pc = "accum"
  /\ seconds' = seconds + (clock - start)
  /\ clock' = 0
  /\ start' = start - clock
  /\ i' = i + 1
  /\ calls' = [ calls EXCEPT !.accum = @ + 1 ]
  /\ pc' = IF i + 1 < GetRepeat(test) THEN "init_each" ELSE "append"
  /\ UNCHANGED << envIdx, exists, testIdx, d1, d, factory, vs, heap, results,
                  base_seconds, out_header, out_rows, tables, measured >>

\* results.append((seconds, test['name'])); set the baseline if it is None
AppendResult ==
  /\ pc = "append"
  /\ results' = Append(results, << seconds, test.name >>)
  /\ base_seconds' = UpdateBase(base_seconds, seconds)
  /\ testIdx' = testIdx + 1
  /\ pc' = "test"
  /\ UNCHANGED << envIdx, exists, d1, d, factory, vs, heap, i, clock, start,
                  seconds, out_header, out_rows, tables, calls, measured >>

\* print the header and one row per entry of sorted(results).  Every row
\* divides by base_seconds: when it is 0 the first row raises
\* ZeroDivisionError, after the header and before any row is printed.
PrintTable ==
  /\ pc = "test"
  /\ testIdx > Len(tests)
  /\ out_header' = TRUE
  /\ IF results # << >> /\ base_seconds = << 0 >>
       THEN /\ pc' = "ZeroDivisionError"
            /\ UNCHANGED << out_rows, tables, envIdx >>
       ELSE /\ out_rows' = [ j \in 1 .. Len(results) |->
                              Row(base_seconds[1], Sorted(results)[j][1],
                                  Sorted(results)[j][2]) ]
            /\ tables' = tables + 1
            /\ envIdx' = envIdx + 1
            /\ pc' = "env"
  /\ UNCHANGED << exists, testIdx, d1, d, factory, vs, heap, i, clock, start,
                  seconds, results, base_seconds, calls, measured >>

\* envs is exhausted: main() returns
Return ==
  /\ pc = "env"
  /\ envIdx > Len(envs)
  /\ pc' = "done"
  /\ UNCHANGED << envIdx, exists, testIdx, d1, d, factory, vs, heap, i, clock,
                  start, seconds, results, base_seconds, out_header, out_rows,
                  tables, calls, measured >>

Next ==
  \/ BeginEnv
  \/ BeginTest
  \/ InitOnce
  \/ InitEach
  \/ TakeStart
  \/ Measure
  \/ Accumulate
  \/ AppendResult
  \/ PrintTable
  \/ Return

Spec == Init /\ [][Next]_vars

(***************************************************************************)
(* The formatting of one row, on its own: the inputs are any baseline      *)
(* total in 1 .. MaxBase and any row total in 0 .. MaxSeconds.             *)
(***************************************************************************)
InitFormat ==
  /\ pc = "format"
  /\ envIdx = 1
  /\ exists = FALSE
  /\ testIdx = 1
  /\ d1 = FixtureDict
  /\ d = << >>
  /\ factory = FALSE
  /\ vs = None
  /\ heap = FixtureHeap
  /\ i = 0
  /\ clock = 0
  /\ start = 0
  /\ seconds \in 0 .. MaxSeconds
  /\ results = << >>
  /\ base_seconds \in { << b >> : b \in 1 .. MaxBase }
  /\ out_header = TRUE
  /\ out_rows = << >>
  /\ tables = 0
  /\ calls = NoCalls
  /\ measured = 0

\* one pass of the body of "for seconds, name in sorted(results)": print a row
FormatRow ==
  /\ pc = "format"
  /\ out_rows' = Append(out_rows, Row(base_seconds[1], seconds, test.name))
  /\ pc' = "formatted"
  /\ UNCHANGED << envIdx, exists, testIdx, d1, d, factory, vs, heap, i, clock,
                  start, seconds, results, base_seconds, out_header, tables,
                  calls, measured >>

NextFormat == FormatRow

SpecFormat == InitFormat /\ [][NextFormat]_vars

(***************************************************************************)
(* Properties.                                                             *)
(***************************************************************************)
InCondition ==
  pc \in { "test", "init_once", "init_each", "start", "measure", "accum", "append" }

InLoop == pc \in { "init_each", "start", "measure", "accum" }

\* a table has just been printed in full
TablePrinted == pc \in { "env", "done" } /\ tables > 0

NestedKV == [ x \in { k2 } |-> v ]

\* the working copy is the fixture with {k2: v} at k1 and nothing else changed
WorkingCopyAsExpected ==
  /\ DOMAIN d = DOMAIN FixtureDict
  /\ heap[d[k1]] = NestedKV
  /\ \A k \in DOMAIN d \ { k1 } : d[k] = FixtureDict[k] /\ heap[d[k]] = << >>

BaselineRow == out_rows[CHOOSE j \in 1 .. Len(out_rows) : out_rows[j].name = tests[1].name]

\* C1: while a condition runs, results holds exactly one entry for each test
\* already finished in this condition, in declaration order, and none of an
\* earlier condition; the printed table has exactly one row per declared test.
C1_OneEntryPerCase ==
  /\ InCondition =>
       /\ Len(results) = testIdx - 1
       /\ \A j \in 1 .. Len(results) : results[j][2] = tests[j].name
  /\ TablePrinted =>
       /\ Len(out_rows) = Len(tests)
       /\ \A t \in 1 .. Len(tests) :
            Cardinality({ j \in 1 .. Len(out_rows) : out_rows[j].name = tests[t].name }) = 1

\* the second table has been printed
C1_Witness == pc = "done" /\ tables = Len(envs) /\ Len(out_rows) = Len(tests)

\* C2: base_seconds is None until the first test of the condition has
\* finished and from then on the total of that first-declared test, also when
\* that total is 0; every printed speedup is computed against it.
C2_BaselineIsFirstCase ==
  /\ base_seconds = IF results = << >> THEN None ELSE << results[1][1] >>
  /\ results # << >> => results[1][2] = tests[1].name
  /\ TablePrinted =>
       \A j \in 1 .. Len(out_rows) :
         out_rows[j].speedup = Format6d(Speedup(results[1][1], out_rows[j].seconds))

\* the first test totalled 0, a later one did not, and the baseline is still 0
C2_Witness ==
  /\ Len(results) >= 2
  /\ results[1][1] = 0
  /\ results[2][1] > 0
  /\ base_seconds = << 0 >>

\* C3: the rows of a printed table are in ascending order of seconds, and
\* they are the entries of results.
C3_RowsAscending ==
  TablePrinted =>
    /\ \A j \in 1 .. Len(out_rows) - 1 : out_rows[j].seconds <= out_rows[j + 1].seconds
    /\ { << out_rows[j].seconds, out_rows[j].name >> : j \in 1 .. Len(out_rows) }
         = Range(results)

\* a table is printed whose rows are not in the order of results
C3_Witness ==
  /\ TablePrinted
  /\ \E j \in 1 .. Len(results) - 1 : results[j][1] > results[j + 1][1]

\* C4: right after every measure, in both conditions and for all six tests,
\* d[k1] is exactly {k2: v}, d has the keys of the fixture, and every other
\* key maps to the fixture's own object, still empty.
C4_MeasurePostState == pc = "accum" => WorkingCopyAsExpected

\* the "try" fragment has run with k1 absent, and the "setdefault" fragment
\* with k1 present
C4_Witness ==
  \/ pc = "accum" /\ test.measure = "try" /\ ~ exists /\ i = Repeat - 1
  \/ pc = "accum" /\ test.measure = "setdefault" /\ exists /\ i = Repeat - 1

\* C5: when measure starts k1 is in d exactly if the condition says so; with
\* "exists = False" the measure binds a new object to k1 (its key-absent
\* path), with "exists = True" it keeps the object; after the last iteration
\* the working copy is the fixture with {k2: v} at k1.
C5_ConditionIsWhatMeasureSees ==
  /\ pc = "measure" => ((k1 \in DOMAIN d) <=> exists)
  /\ InLoop => exists = (envs[envIdx] = "exists = True")
  /\ pc = "accum" /\ ~ exists => d[k1] \notin Range(d1)
  /\ pc = "accum" /\ exists => d[k1] = d1[k1]
  /\ pc = "append" => WorkingCopyAsExpected

\* the last iteration of "not in" under "exists = False" is about to measure
C5_Witness ==
  /\ pc = "measure"
  /\ test.name = "not in"
  /\ ~ exists
  /\ i = Repeat - 1
  /\ k1 \notin DOMAIN d

\* C6: d1 has the keys and the nested dicts it was built with, all of them
\* still empty.
C6_FixtureNeverMutated ==
  /\ d1 = FixtureDict
  /\ \A k \in DOMAIN d1 : heap[d1[k]] = << >>

\* C7 (as claimed): the baseline row shows 0 when no row is faster, and a
\* negative number when a faster row is printed above it.
C7_BaselineZeroOrNegative ==
  TablePrinted =>
    IF \A j \in 1 .. Len(out_rows) : out_rows[j].seconds >= BaselineRow.seconds
      THEN BaselineRow.speedup = << " ", " ", " ", " ", " ", "0" >>
      ELSE "-" \in Range(BaselineRow.speedup)

\* C7 (amended): the baseline row shows 0, whether or not a faster row is
\* printed above it.
C7_BaselineAlwaysZero ==
  TablePrinted => BaselineRow.speedup = << " ", " ", " ", " ", " ", "0" >>

\* a table is printed in which a row is faster than the baseline row
C7_Witness ==
  /\ TablePrinted
  /\ \E j \in 1 .. Len(out_rows) : out_rows[j].seconds < BaselineRow.seconds

\* C8 (as claimed): the speedup field of a row is exactly 6 characters wide.
C8_FieldAlwaysSix ==
  pc = "formatted" => Len(out_rows[1].speedup) = 6

\* C8 (amended): the speedup field is at least 6 characters wide; it is
\* exactly 6 wide when the percentage is at least -99999, that is when
\* 100 * (seconds - base) / base < 99999.5, and wider otherwise.
C8_FieldAtLeastSix ==
  pc = "formatted" =>
    /\ Len(out_rows[1].speedup) >= 6
    /\ Len(out_rows[1].speedup) = 6
         <=> 200 * (seconds - base_seconds[1]) < 199999 * base_seconds[1]

\* a row is formatted whose field is 7 characters wide
C8_Witness == pc = "formatted" /\ Len(out_rows[1].speedup) = 7

\* C9: init_once runs once, before the first iteration; each iteration runs
\* init_each, the start timestamp, measure and the accumulation once each and
\* in that order; the total is the time spent inside measure; the entry of
\* the test is stored only after the last iteration.
C9_IterationOrder ==
  /\ pc = "init_once" => calls = NoCalls
  /\ InLoop \/ pc = "append" => calls.once = 1
  /\ pc = "init_each" =>
       /\ calls.each = i /\ calls.start = i /\ calls.measure = i /\ calls.accum = i
       /\ seconds = measured
  /\ pc = "start" =>
       calls.each = i + 1 /\ calls.start = i /\ calls.measure = i /\ calls.accum = i
  /\ pc = "measure" =>
       calls.each = i + 1 /\ calls.start = i + 1 /\ calls.measure = i /\ calls.accum = i
  /\ pc = "accum" =>
       calls.each = i + 1 /\ calls.start = i + 1 /\ calls.measure = i + 1 /\ calls.accum = i
  /\ InLoop => i < GetRepeat(test) /\ Len(results) = testIdx - 1
  /\ pc = "append" =>
       /\ i = GetRepeat(test)
       /\ calls.each = i /\ calls.start = i /\ calls.measure = i /\ calls.accum = i
       /\ seconds = measured
       /\ Len(results) = testIdx - 1

\* a test has finished its last iteration with a total that is not 0
C9_Witness == pc = "append" /\ seconds = Repeat * MaxMeasureTicks /\ seconds > 0

\* C10 (as claimed): init_each always finds k1, no run ends in a KeyError,
\* and no run ends before both tables are printed.
C10_NoAbort ==
  /\ pc = "init_each" /\ ~ exists => k1 \in DOMAIN d
  /\ pc # "KeyError"
  /\ pc \in { "done", "KeyError", "ZeroDivisionError" } => tables = Len(envs)

\* C10 (amended): init_each always finds k1 and no run ends in a KeyError; a
\* run that returns has printed both tables, and a run ends early only with
\* the ZeroDivisionError of a baseline total of 0.
C10_NoKeyError ==
  /\ pc = "init_each" /\ ~ exists => k1 \in DOMAIN d
  /\ pc # "KeyError"
  /\ pc = "done" => tables = Len(envs)
  /\ pc = "ZeroDivisionError" => base_seconds = << 0 >> /\ tables < Len(envs)

\* under "exists = False" init_each has deleted k1 again in the last iteration
C10_Witness ==
  /\ pc = "start"
  /\ ~ exists
  /\ i = Repeat - 1
  /\ test.name = "try"
  /\ k1 \notin DOMAIN d

=============================================================================
